---- MODULE Spec2Model ----
(***************************************************************************)
(* Model of src/script.js, the front end of the Digital Media Persuasion   *)
(* Analyzer: the analyze button's click handler (validation, the request   *)
(* to /analyze, the handling of its outcome), displayResults and the       *)
(* functions it calls, and the setInterval tween of animateNumber.         *)
(*                                                                         *)
(* Texts, emotion keys and category names are sequences of one-character   *)
(* strings, so that trim, capitalisation and replace are computed.         *)
(* An optional JSON value is a sequence of length 0 (absent) or 1.         *)
(*                                                                         *)
(* Three specifications share the definitions:                             *)
(*   Spec        the page: clicks, Ctrl+Enter and the life of a request;   *)
(*   SpecRender  successive calls of displayResults over varied results;   *)
(*   SpecTween   calls of displayResults and the ticks of the timers that  *)
(*               animateNumber starts.                                     *)
(* The timer callbacks write only #gaugeScore and #ethicalScore, which the *)
(* click handler never reads, so Spec does not interleave them.  All the   *)
(* timers have the same 16 ms interval, so they fire in turn, in the order *)
(* they were started.  The setTimeout(..., 100) callbacks, which only set  *)
(* stroke and width styles, and the tab buttons are not modelled.          *)
(***************************************************************************)
EXTENDS Integers, Sequences, FiniteSets, TLC

VARIABLES
    btnDisabled,        \* analyzeBtn.disabled
    spinnerHidden,      \* loadingSpinner has class "hidden"
    resultsHidden,      \* resultsSection has class "hidden"
    reqs,               \* click handlers suspended at an await, oldest first
    nreq,               \* number of fetch('/analyze') calls issued so far
    ev,                 \* what the most recent event handler run did
    emotionChart,       \* the global: "null", or the state of the Chart it refers to
    chartsAlive,        \* Chart instances constructed and not destroyed
    peakAlive,          \* the largest value chartsAlive has had at any instant
    chartSegments,      \* the segments of the chart last constructed
    persuasionLabel,    \* textContent of #persuasionLabel
    ethicalReflection,  \* textContent of #ethicalReflection
    sentimentText,      \* the values shown in #polarityValue / #subjectivityValue
    keywordCount,       \* textContent of #keywordCount
    keywordCategories,  \* children of #keywordCategories
    keywordsList,       \* children of #keywordsList
    highlightedText,    \* innerHTML of #highlightedText
    gaugeScore,         \* textContent of #gaugeScore
    ethicalScore,       \* textContent of #ethicalScore
    timers,             \* active setInterval timers, next to fire first
    nrender,            \* number of displayResults calls so far
    rendered            \* the data of the most recent displayResults call

vars == <<btnDisabled, spinnerHidden, resultsHidden, reqs, nreq, ev,
          emotionChart, chartsAlive, peakAlive, chartSegments,
          persuasionLabel, ethicalReflection, sentimentText,
          keywordCount, keywordCategories, keywordsList, highlightedText,
          gaugeScore, ethicalScore, timers, nrender, rendered>>

pageVars == <<btnDisabled, spinnerHidden, resultsHidden, reqs, nreq>>

renderVars == <<emotionChart, chartsAlive, peakAlive, chartSegments,
                persuasionLabel, ethicalReflection, sentimentText,
                keywordCount, keywordCategories, keywordsList, highlightedText,
                timers, nrender, rendered>>

scoreVars == <<gaugeScore, ethicalScore>>

(***************************************************************************)
(* Bounds of the model.                                                    *)
(***************************************************************************)
MaxPad == 1         \* whitespace characters put before / after a text
MaxCore == 10       \* longest text between the padding
MaxRequests == 2    \* fetch calls issued in one behaviour
MaxRenders == 3     \* displayResults calls in one behaviour of SpecRender
MaxTweenRenders == 2 \* displayResults calls in one behaviour of SpecTween

(***************************************************************************)
(* Program constants.                                                      *)
(***************************************************************************)
MinLength == 10     \* textInput.length < 10
Duration == 2000    \* animateNumber(scoreText, 0, score, 2000)
TickMs == 16        \* setInterval(..., 16) and duration / 16

(***************************************************************************)
(* Strings.                                                                *)
(***************************************************************************)
WhiteSpace == {" ", "\t", "\n"}

RECURSIVE trimStart(_)
trimStart(s) ==
    IF s # <<>> /\ Head(s) \in WhiteSpace THEN trimStart(Tail(s)) ELSE s

RECURSIVE trimEnd(_)
trimEnd(s) ==
    IF s # <<>> /\ s[Len(s)] \in WhiteSpace
    THEN trimEnd(SubSeq(s, 1, Len(s) - 1))
    ELSE s

\* String.prototype.trim
trim(s) == trimEnd(trimStart(s))

Lower == <<"a", "f", "j", "t", "u", "s">>
Upper == <<"A", "F", "J", "T", "U", "S">>

\* String.prototype.toUpperCase on one character
toUpperCase(c) ==
    IF \E i \in 1..Len(Lower) : Lower[i] = c
    THEN Upper[CHOOSE i \in 1..Len(Lower) : Lower[i] = c]
    ELSE c

\* key.charAt(0).toUpperCase() + key.slice(1)
capitalize(key) ==
    IF key = <<>> THEN <<>> ELSE <<toUpperCase(Head(key))>> \o Tail(key)

\* category.replace('_', ' '): the first underscore only
RECURSIVE replaceUnderscore(_)
replaceUnderscore(s) ==
    IF s = <<>> THEN <<>>
    ELSE IF Head(s) = "_" THEN <<" ">> \o Tail(s)
    ELSE <<Head(s)>> \o replaceUnderscore(Tail(s))

(***************************************************************************)
(* Values exchanged with the analysis service.                             *)
(***************************************************************************)
Some(v) == <<v>>
None == <<>>
present(opt) == Len(opt) > 0

Joy == <<"j", "o", "y">>
Fear == <<"f", "e", "a", "r">>
Anger == <<"a", "n", "g", "e", "r">>
Trust == <<"t", "r", "u", "s", "t">>

Emotion(key, value) == [key |-> key, value |-> value]
Category(name, count) == [category |-> name, count |-> count]

Keywords(count, by_category, words_found) ==
    [count |-> count, by_category |-> by_category, words_found |-> words_found]

AnalysisResult(p, label, e, sentiment, emotions, keywords) ==
    [persuasion_score |-> p,
     persuasion_label |-> label,
     ethical_score |-> e,
     ethical_reflection |-> "reflection",
     sentiment |-> sentiment,
     emotions |-> emotions,
     persuasive_keywords |-> keywords,
     highlighted_text |-> "<mark>text</mark>"]

NoResult == AnalysisResult(0, "", 0, None, None, None)

Sentiment == [polarity |-> 250, subjectivity |-> 500]        \* in thousandths

EmotionsInOrder == <<Emotion(Joy, 40), Emotion(Fear, 30), Emotion(Anger, 20), Emotion(Trust, 10)>>

NoKeywords == Keywords(0, Some(<<>>), Some(<<>>))

SomeKeywords ==
    Keywords(2,
             Some(<<Category(<<"u", "_", "s", "_", "a">>, 2), Category(<<"f", "a", "s", "t">>, 0)>>),
             Some(<<"now", "free">>))

\* The error payload of a non-2xx response: the body as response.json() reads it.
Payload(kind, hasError, error) == [kind |-> kind, hasError |-> hasError, error |-> error]
NoPayload == Payload("none", FALSE, "")

Payloads ==
    { Payload("unparseable", FALSE, ""),
      Payload("null", FALSE, ""),
      Payload("object", FALSE, ""),
      Payload("object", TRUE, ""),
      Payload("object", TRUE, "bad text") }

(***************************************************************************)
(* Messages.                                                               *)
(***************************************************************************)
NoAlert == ""
ValidationNotice == "Please enter at least 10 characters of text to analyze."
AnalysisFailed == "Analysis failed"
FailedToFetch == "Failed to fetch"                      \* fetch's rejection
SyntaxErrorMessage == "Unexpected token < in JSON"      \* response.json()'s rejection
NullErrorMessage == "Cannot read properties of null"    \* error.error on null
PlaceholderMessage == "No persuasive keywords detected."

\* alert(`Error: ${error.message}`)
ErrorNotice(message) == "Error: " \o message

(***************************************************************************)
(* displayResults and the functions it calls.  A statement that reads a    *)
(* property of an absent value throws a TypeError; the statements before   *)
(* it have taken effect and the ones after it have not.                    *)
(***************************************************************************)
Steps == Duration \div TickMs

\* The first statement of displayResults(data) that throws, if any.
thrownBy(data) ==
    IF ~present(data.sentiment) THEN "sentiment"
    ELSE IF ~present(data.emotions) THEN "emotions"
    ELSE IF ~present(data.persuasive_keywords) THEN "persuasive_keywords"
    ELSE IF ~present(data.persuasive_keywords[1].by_category) THEN "by_category"
    ELSE IF ~present(data.persuasive_keywords[1].words_found) THEN "words_found"
    ELSE "none"

Order == <<"sentiment", "emotions", "persuasive_keywords", "by_category", "words_found", "none">>
rank(t) == CHOOSE i \in 1..Len(Order) : Order[i] = t

\* Whether displayResults(data) runs past the statement that reads `what`.
passes(data, what) == rank(thrownBy(data)) > rank(what)

TypeErrorMessage(what) == "Cannot read properties of undefined: " \o what

\* animateNumber(element, start, end, duration): the timer it starts.
\* `current` is kept multiplied by Steps, so that adding the increment
\* range / (duration / 16) is adding `range`.
animateNumber(element, start, end, render) ==
    [el |-> element, current |-> start * Steps, end |-> end,
     range |-> end - start, render |-> render]

\* Math.round(current), for current kept multiplied by Steps
round(cur) == (2 * cur + Steps) \div (2 * Steps)

\* if (emotionChart) { emotionChart.destroy(); }: the instances then alive
afterDestroyNone(ref, alive) == alive
afterDestroy(ref, alive) == IF ref = "live" THEN alive - 1 ELSE alive

backgroundColor == <<"#10b981", "#ef4444", "#dc2626", "#3b82f6">>

\* labels, data and backgroundColor of the chart: segment i takes entry i of each
segments(emotions) ==
    [i \in 1..Len(emotions) |->
        [key |-> emotions[i].key,
         label |-> capitalize(emotions[i].key),
         value |-> emotions[i].value,
         color |-> IF i <= Len(backgroundColor) THEN backgroundColor[i] ELSE "default"]]

displayEmotionChart(data) ==
    LET alive == afterDestroy(emotionChart, chartsAlive) IN
    IF ~passes(data, "sentiment")
    THEN UNCHANGED <<emotionChart, chartsAlive, peakAlive, chartSegments>>
    ELSE IF ~passes(data, "emotions")
    THEN /\ emotionChart' = IF emotionChart = "null" THEN "null" ELSE "destroyed"
         /\ chartsAlive' = alive
         /\ peakAlive' = peakAlive
         /\ chartSegments' = <<>>
    ELSE /\ emotionChart' = "live"
         /\ chartsAlive' = alive + 1
         /\ peakAlive' = IF alive + 1 > peakAlive THEN alive + 1 ELSE peakAlive
         /\ chartSegments' = segments(data.emotions[1])

\* categoriesContainer.innerHTML = ''
clearedNot(children) == children
cleared(children) == <<>>

Positive(c) == c.count > 0

\* one .category-item per entry of by_category with count > 0
categoryItems(by_category) ==
    LET kept == SelectSeq(by_category, Positive) IN
    [i \in 1..Len(kept) |->
        [name |-> replaceUnderscore(kept[i].category), count |-> kept[i].count]]

\* one .keyword-tag per word, or the placeholder paragraph
keywordTags(words_found) ==
    IF Len(words_found) > 0
    THEN [i \in 1..Len(words_found) |-> [kind |-> "tag", text |-> words_found[i]]]
    ELSE <<[kind |-> "placeholder", text |-> PlaceholderMessage]>>

displayKeywords(data) ==
    LET kd == data.persuasive_keywords[1] IN
    /\ keywordCount' =
         IF passes(data, "persuasive_keywords") THEN kd.count ELSE keywordCount
    /\ keywordCategories' =
         IF passes(data, "by_category")
         THEN cleared(keywordCategories) \o categoryItems(kd.by_category[1])
         ELSE IF passes(data, "persuasive_keywords") THEN cleared(keywordCategories)
         ELSE keywordCategories
    /\ keywordsList' =
         IF passes(data, "words_found")
         THEN IF Len(kd.words_found[1]) > 0
              THEN cleared(keywordsList) \o keywordTags(kd.words_found[1])
              ELSE keywordTags(kd.words_found[1])
         ELSE IF passes(data, "by_category") THEN cleared(keywordsList)
         ELSE keywordsList

\* The regions displayResults(data) has written when it returns or throws.
regionsWritten(data) ==
    {"gauge", "persuasionLabel", "ethicalScore", "ethicalReflection"}
      \cup (IF passes(data, "sentiment") THEN {"sentiment", "emotionChart"} ELSE {})
      \cup (IF passes(data, "persuasive_keywords") THEN {"keywords"} ELSE {})
      \cup (IF passes(data, "words_found") THEN {"highlightedText"} ELSE {})

displayResults(data) ==
    /\ nrender' = nrender + 1
    /\ rendered' = data
    /\ timers' = timers \o
         << animateNumber("gaugeScore", 0, data.persuasion_score, nrender + 1),
            animateNumber("ethicalScore", 0, data.ethical_score, nrender + 1) >>
    /\ persuasionLabel' = data.persuasion_label
    /\ ethicalReflection' = data.ethical_reflection
    /\ sentimentText' = IF passes(data, "sentiment") THEN data.sentiment[1] ELSE sentimentText
    /\ displayEmotionChart(data)
    /\ displayKeywords(data)
    /\ highlightedText' =
         IF passes(data, "words_found") THEN data.highlighted_text ELSE highlightedText

(***************************************************************************)
(* What the most recent handler run did (a record of the run, not program  *)
(* state): the event, whether the browser dispatched it to the handler,    *)
(* the alert it raised, what it rendered, and for a timer tick the element *)
(* written, the value shown and whether the timer was cleared.             *)
(***************************************************************************)
Ev(kind) ==
    [kind |-> kind, text |-> <<>>, dispatched |-> TRUE, issued |-> FALSE,
     alert |-> NoAlert, payload |-> NoPayload, thrown |-> "none", updated |-> {},
     repeat |-> FALSE, rowsBefore |-> 0, tagsBefore |-> 0,
     el |-> "", shown |-> 0, end |-> 0, moved |-> FALSE, cleared |-> FALSE]

(***************************************************************************)
(* The analyze button's click handler, up to its first await.              *)
(***************************************************************************)
\* !textInput || textInput.length < 10, for textInput = value.trim()
tooShortUntrimmed(value) == Len(value) < MinLength
tooShort(value) == Len(trim(value)) < MinLength

\* document.getElementById('analyzeBtn').disabled = true
loadingDisabledNot == FALSE
loadingDisabled == TRUE

analyzeBtnClick(kind, value) ==
    IF tooShort(value)
    THEN /\ ev' = [Ev(kind) EXCEPT !.text = value, !.alert = ValidationNotice]
         /\ UNCHANGED <<pageVars, renderVars, scoreVars>>
    ELSE /\ spinnerHidden' = FALSE
         /\ resultsHidden' = TRUE
         /\ btnDisabled' = loadingDisabled
         /\ reqs' = Append(reqs, [stage |-> "fetch", text |-> trim(value)])
         /\ nreq' = nreq + 1
         /\ ev' = [Ev(kind) EXCEPT !.text = value, !.issued = TRUE]
         /\ UNCHANGED <<renderVars, scoreVars>>

\* A click event reaches the handler only while the button is enabled.
click(kind, value) ==
    IF btnDisabled
    THEN /\ ev' = [Ev(kind) EXCEPT !.text = value, !.dispatched = FALSE]
         /\ UNCHANGED <<pageVars, renderVars, scoreVars>>
    ELSE analyzeBtnClick(kind, value)

Pad(n, c) == [i \in 1..n |-> c]

\* n characters, the middle one a space when inner is set
Core(n, inner) == [i \in 1..n |-> IF inner /\ n >= 3 /\ i = 2 THEN " " ELSE "a"]

Texts ==
    { Pad(l, " ") \o Core(n, inner) \o Pad(t, "\n") :
        l \in 0..MaxPad, t \in 0..MaxPad, n \in {0} \cup ((MinLength - 1)..MaxCore),
        inner \in BOOLEAN }

\* The user clicks the analyze button.
Click ==
    /\ nreq < MaxRequests
    /\ \E value \in Texts : click("click", value)

\* Ctrl+Enter in the text input: analyzeBtn.click()
CtrlEnter ==
    /\ nreq < MaxRequests
    /\ \E value \in Texts : click("ctrlEnter", value)

(***************************************************************************)
(* The rest of the handler: each await's continuation, the catch and the   *)
(* finally.                                                                *)
(***************************************************************************)
Remove(seq, i) == SubSeq(seq, 1, i - 1) \o SubSeq(seq, i + 1, Len(seq))

\* catch: document.getElementById('loadingSpinner').classList.add('hidden')
catchSpinnerKept(before) == before
catchSpinner(before) == TRUE

\* finally: document.getElementById('analyzeBtn').disabled = false
finallyDisabled == FALSE

\* catch (error) { alert(`Error: ${error.message}`); ... } finally { ... }
Caught(i, spinnerBefore) ==
    /\ spinnerHidden' = catchSpinner(spinnerBefore)
    /\ btnDisabled' = finallyDisabled
    /\ reqs' = Remove(reqs, i)
    /\ UNCHANGED nreq

\* fetch rejects: a network failure
FetchRejected ==
    \E i \in 1..Len(reqs) :
        /\ reqs[i].stage = "fetch"
        /\ Caught(i, spinnerHidden)
        /\ ev' = [Ev("fetchRejected") EXCEPT !.alert = ErrorNotice(FailedToFetch)]
        /\ UNCHANGED <<resultsHidden, renderVars, scoreVars>>

\* fetch resolves with a response; the handler awaits response.json()
FetchResolved ==
    \E i \in 1..Len(reqs), ok \in BOOLEAN :
        /\ reqs[i].stage = "fetch"
        /\ reqs' = [reqs EXCEPT ![i].stage = IF ok THEN "okBody" ELSE "errorBody"]
        /\ ev' = Ev("fetchResolved")
        /\ UNCHANGED <<btnDisabled, spinnerHidden, resultsHidden, nreq, renderVars, scoreVars>>

\* error.message in the catch, for a non-2xx response with this payload
errorMessageAlways(payload) ==
    IF payload.kind = "unparseable" THEN SyntaxErrorMessage
    ELSE IF payload.kind = "null" THEN NullErrorMessage
    ELSE AnalysisFailed
errorMessage(payload) ==
    IF payload.kind = "unparseable" THEN SyntaxErrorMessage
    ELSE IF payload.kind = "null" THEN NullErrorMessage
    ELSE IF payload.hasError /\ payload.error # "" THEN payload.error
    ELSE AnalysisFailed

\* !response.ok: const error = await response.json(); throw new Error(...)
ErrorBody ==
    \E i \in 1..Len(reqs), payload \in Payloads :
        /\ reqs[i].stage = "errorBody"
        /\ Caught(i, spinnerHidden)
        /\ ev' = [Ev("errorBody") EXCEPT !.alert = ErrorNotice(errorMessage(payload)),
                                         !.payload = payload]
        /\ UNCHANGED <<resultsHidden, renderVars, scoreVars>>

\* response.ok, and response.json() rejects: the body is not JSON
OkBodyRejected ==
    \E i \in 1..Len(reqs) :
        /\ reqs[i].stage = "okBody"
        /\ Caught(i, spinnerHidden)
        /\ ev' = [Ev("okBodyRejected") EXCEPT !.alert = ErrorNotice(SyntaxErrorMessage)]
        /\ UNCHANGED <<resultsHidden, renderVars, scoreVars>>

PageResults ==
    { AnalysisResult(50, "Moderate", 50, Some(Sentiment), Some(EmotionsInOrder), Some(SomeKeywords)),
      AnalysisResult(50, "Moderate", 50, Some(Sentiment), Some(EmotionsInOrder), Some(NoKeywords)),
      AnalysisResult(50, "Moderate", 50, None, Some(EmotionsInOrder), Some(SomeKeywords)),
      AnalysisResult(50, "Moderate", 50, Some(Sentiment), None, Some(SomeKeywords)),
      AnalysisResult(50, "Moderate", 50, Some(Sentiment), Some(EmotionsInOrder), None) }

\* response.ok and the body parses: show the results and render them
OkBody ==
    \E i \in 1..Len(reqs), data \in PageResults :
        /\ reqs[i].stage = "okBody"
        /\ resultsHidden' = FALSE
        /\ displayResults(data)
        /\ IF thrownBy(data) = "none"
           THEN /\ spinnerHidden' = TRUE
                /\ btnDisabled' = finallyDisabled
                /\ reqs' = Remove(reqs, i)
                /\ UNCHANGED nreq
                /\ ev' = [Ev("okBody") EXCEPT !.updated = regionsWritten(data)]
           ELSE /\ Caught(i, TRUE)
                /\ ev' = [Ev("okBody") EXCEPT
                            !.alert = ErrorNotice(TypeErrorMessage(thrownBy(data))),
                            !.thrown = thrownBy(data),
                            !.updated = regionsWritten(data)]
        /\ UNCHANGED scoreVars

(***************************************************************************)
(* The setInterval callback of animateNumber.  Every timer has the same    *)
(* interval, so the timers fire in turn, a new one after those running.    *)
(***************************************************************************)
Tick ==
    /\ timers # <<>>
    /\ LET t == Head(timers)
           next == t.current + t.range
           reached == \/ (t.range > 0 /\ next >= t.end * Steps)
                      \/ (t.range < 0 /\ next <= t.end * Steps)
           current == IF reached THEN t.end * Steps ELSE next
       IN /\ timers' = IF reached THEN Tail(timers)
                       ELSE Append(Tail(timers), [t EXCEPT !.current = current])
          /\ gaugeScore' = IF t.el = "gaugeScore" THEN round(current) ELSE gaugeScore
          /\ ethicalScore' = IF t.el = "ethicalScore" THEN round(current) ELSE ethicalScore
          /\ ev' = [Ev("tick") EXCEPT !.el = t.el, !.shown = round(current), !.end = t.end,
                                      !.moved = (current # t.current),
                                      !.cleared = reached]
    /\ UNCHANGED <<pageVars, emotionChart, chartsAlive, peakAlive, chartSegments,
                   persuasionLabel, ethicalReflection, sentimentText,
                   keywordCount, keywordCategories, keywordsList, highlightedText,
                   nrender, rendered>>

(***************************************************************************)
(* The page: trigger events and the request's lifecycle.                   *)
(***************************************************************************)
Init ==
    /\ btnDisabled = FALSE
    /\ spinnerHidden = TRUE
    /\ resultsHidden = TRUE
    /\ reqs = <<>>
    /\ nreq = 0
    /\ ev = Ev("init")
    /\ emotionChart = "null"
    /\ chartsAlive = 0
    /\ peakAlive = 0
    /\ chartSegments = <<>>
    /\ persuasionLabel = ""
    /\ ethicalReflection = ""
    /\ sentimentText = [polarity |-> 0, subjectivity |-> 0]
    /\ keywordCount = 0
    /\ keywordCategories = <<>>
    /\ keywordsList = <<>>
    /\ highlightedText = ""
    /\ gaugeScore = 0
    /\ ethicalScore = 0
    /\ timers = <<>>
    /\ nrender = 0
    /\ rendered = NoResult

Next ==
    \/ Click
    \/ CtrlEnter
    \/ FetchRejected
    \/ FetchResolved
    \/ ErrorBody
    \/ OkBodyRejected
    \/ OkBody

Spec == Init /\ [][Next]_vars

(***************************************************************************)
(* Properties of the page, checked under Spec.                             *)
(***************************************************************************)
Triggers == {"click", "ctrlEnter"}
Completions == {"fetchRejected", "errorBody", "okBodyRejected", "okBody"}

\* C1: a trigger whose text has fewer than 10 characters after trimming issues
\* no request, and the handler it reaches shows the validation notice; every
\* request in flight carries a text of at least 10 characters.  (A trigger
\* while the button is disabled reaches no handler: no notice, no request.)
C1_ShortTextBlocked ==
    /\ (ev.kind \in Triggers /\ Len(trim(ev.text)) < MinLength) =>
          /\ ~ev.issued
          /\ ev.dispatched => ev.alert = ValidationNotice
    /\ \A i \in 1..Len(reqs) : Len(reqs[i].text) >= MinLength

\* C1 witness: after an earlier request, Ctrl+Enter on a text of 10 or more
\* characters of which fewer than 10 remain after trimming was blocked.
C1_Witness ==
    /\ nreq >= 1
    /\ ev.kind = "ctrlEnter"
    /\ ev.dispatched
    /\ Len(ev.text) >= MinLength
    /\ Len(trim(ev.text)) < MinLength
    /\ ev.alert = ValidationNotice
    /\ ~ev.issued

\* C2: at most one request is in flight; while one is, the button is disabled;
\* a trigger that the disabled button swallowed issued nothing, and a trigger
\* that issued a request left exactly that request in flight.
C2_OneInFlight ==
    /\ Len(reqs) <= 1
    /\ Len(reqs) = 1 => btnDisabled
    /\ (ev.kind \in Triggers /\ ~ev.dispatched) => ~ev.issued
    /\ (ev.kind \in Triggers /\ ev.issued) => Len(reqs) = 1

\* C2 witness: with a request awaiting its body, Ctrl+Enter on a valid text
\* started nothing.
C2_Witness ==
    /\ Len(reqs) = 1
    /\ reqs[1].stage = "okBody"
    /\ ev.kind = "ctrlEnter"
    /\ ~tooShort(ev.text)
    /\ ~ev.dispatched
    /\ ~ev.issued

\* C3: every completion of a request leaves the button enabled and the
\* spinner hidden, and so does every state with no request in flight.
C3_CleanupAlways ==
    /\ ev.kind \in Completions => (~btnDisabled /\ spinnerHidden)
    /\ reqs = <<>> => (~btnDisabled /\ spinnerHidden)

\* C3 witness: a request completed by an exception thrown while rendering.
C3_Witness ==
    /\ ev.kind = "okBody"
    /\ ev.thrown # "none"
    /\ reqs = <<>>
    /\ ~btnDisabled
    /\ spinnerHidden

HasMessage(payload) == payload.hasError /\ payload.error # ""

\* C4 as stated: on every non-2xx response the notice is "Error: " followed by
\* the payload's error message, or by "Analysis failed" when it carries none,
\* and nothing is rendered.
C4_Original ==
    ev.kind = "errorBody" =>
        /\ ev.alert = "Error: " \o (IF HasMessage(ev.payload) THEN ev.payload.error
                                    ELSE "Analysis failed")
        /\ ev.updated = {}

\* C4 amended: on a non-2xx response nothing is rendered; when the body parses
\* to a JSON value other than null the notice is "Error: " followed by its
\* non-empty error string, or by "Analysis failed" when it has none; when the
\* body does not parse, or is null, the notice is "Error: " followed by the
\* message of that failure.
C4_ErrorNotice ==
    ev.kind = "errorBody" =>
        /\ ev.updated = {}
        /\ ev.payload.kind = "object" =>
             ev.alert = "Error: " \o (IF HasMessage(ev.payload) THEN ev.payload.error
                                      ELSE "Analysis failed")
        /\ ev.payload.kind = "unparseable" => ev.alert = "Error: " \o SyntaxErrorMessage
        /\ ev.payload.kind = "null" => ev.alert = "Error: " \o NullErrorMessage

\* C4 witness: the body {"error":"bad text"} gave the notice "Error: bad text"
\* and the button ended enabled.
C4_Witness ==
    /\ ev.kind = "errorBody"
    /\ ev.payload = Payload("object", TRUE, "bad text")
    /\ ev.alert = "Error: bad text"
    /\ ~btnDisabled

\* C5 as stated: whenever a request ends with an error notice, the results
\* area is hidden and no region was written from that response.
C5_Original ==
    (ev.kind \in Completions /\ ev.alert # NoAlert) =>
        /\ resultsHidden
        /\ ev.updated = {}

(***************************************************************************)
(* displayResults on its own: a sequence of calls, as successive responses *)
(* make them, over results that differ in their emotions and keywords.     *)
(***************************************************************************)
MaxEmotions == 2    \* keys of an emotions mapping, besides the full one
MaxWords == 2       \* length of words_found

EmotionKeys == {Joy, Fear, Anger, Trust}

\* emotions mappings: up to MaxEmotions distinct keys in any order
EmotionMaps ==
    { m \in UNION { [1..n -> EmotionKeys] : n \in 0..MaxEmotions } :
        \A i, j \in 1..Len(m) : i # j => m[i] # m[j] }

WithValues(m) == [i \in 1..Len(m) |-> Emotion(m[i], 10 * i)]

Words == {"now", "free"}
WordLists == UNION { [1..n -> Words] : n \in 0..MaxWords }

CategoryMaps ==
    { <<>> }
      \cup { <<Category(<<"u", "_", "s", "_", "a">>, x)>> : x \in {0, 2} }
      \cup { <<Category(<<"u", "_", "s", "_", "a">>, x), Category(<<"f", "a", "s", "t">>, y)>> :
               x \in {0, 2}, y \in {0, 1} }

RenderResults ==
    { AnalysisResult(50, "Moderate", 50, Some(Sentiment), Some(WithValues(m)), Some(SomeKeywords)) :
        m \in EmotionMaps }
      \cup
    { AnalysisResult(50, "Moderate", 50, Some(Sentiment), Some(EmotionsInOrder),
                     Some(Keywords(Len(w), Some(c), Some(w)))) :
        c \in CategoryMaps, w \in WordLists }
      \cup
    { AnalysisResult(50, "Moderate", 50, Some(Sentiment), Some(EmotionsInOrder),
                     Some(Keywords(1, c, w))) :
        c \in {None, Some(<<>>)}, w \in {None} }
      \cup PageResults

\* displayResults(data), called outside a request
Render(data) ==
    /\ displayResults(data)
    /\ ev' = [Ev("render") EXCEPT !.thrown = thrownBy(data),
                                  !.updated = regionsWritten(data),
                                  !.repeat = (nrender > 0 /\ data = rendered),
                                  !.rowsBefore = Len(keywordCategories),
                                  !.tagsBefore = Len(keywordsList)]
    /\ UNCHANGED <<pageVars, scoreVars>>

RenderAny ==
    /\ nrender < MaxRenders
    /\ \E data \in RenderResults : Render(data)

SpecRender == Init /\ [][RenderAny]_vars

(***************************************************************************)
(* The tweens: renders of results that differ in their scores, and the     *)
(* ticks of the timers they start.                                         *)
(***************************************************************************)
TweenScores == {0, 80}

TweenResults ==
    { AnalysisResult(p, "Moderate", e, Some(Sentiment), Some(EmotionsInOrder), Some(NoKeywords)) :
        p \in TweenScores, e \in TweenScores }

TweenRender ==
    /\ nrender < MaxTweenRenders
    /\ \E data \in TweenResults : Render(data)

TweenNext ==
    \/ TweenRender
    \/ Tick

SpecTween == Init /\ [][TweenNext]_vars

(***************************************************************************)
(* Properties of displayResults, checked under SpecRender.                 *)
(***************************************************************************)
\* C6: at most one Chart constructed and not destroyed exists, at every
\* instant (the previous one is destroyed before its replacement is
\* constructed), and exactly one, the one emotionChart refers to, after a
\* render that reached the construction.
C6_OneChart ==
    /\ chartsAlive <= 1
    /\ peakAlive <= 1
    /\ (ev.kind = "render" /\ passes(rendered, "emotions")) =>
          (chartsAlive = 1 /\ emotionChart = "live")

\* C6 witness: the same result rendered a second time, one chart alive.
C6_Witness ==
    /\ ev.kind = "render"
    /\ ev.repeat
    /\ ev.thrown = "none"
    /\ nrender >= 2
    /\ chartsAlive = 1
    /\ emotionChart = "live"

CountPositive(by_category) ==
    Cardinality({ i \in 1..Len(by_category) : by_category[i].count > 0 })

\* C7: after a render that completed, the panel shows the result's count, a
\* row for exactly the categories whose count is greater than 0, and one tag
\* per word of words_found in order, or only the placeholder when there is
\* no word; nothing of an earlier render remains.
C7_KeywordPanel ==
    (ev.kind = "render" /\ ev.thrown = "none") =>
        LET kd == rendered.persuasive_keywords[1]
            by == kd.by_category[1]
            words == kd.words_found[1]
        IN /\ keywordCount = kd.count
           /\ Len(keywordCategories) = CountPositive(by)
           /\ \A i \in 1..Len(by) :
                by[i].count > 0 <=>
                  \E j \in 1..Len(keywordCategories) :
                     /\ keywordCategories[j].count = by[i].count
                     /\ keywordCategories[j].name = replaceUnderscore(by[i].category)
           /\ IF words = <<>>
              THEN keywordsList = <<[kind |-> "placeholder", text |-> PlaceholderMessage]>>
              ELSE /\ Len(keywordsList) = Len(words)
                   /\ \A i \in 1..Len(words) :
                        keywordsList[i] = [kind |-> "tag", text |-> words[i]]

\* C7 witness: {count:0, by_category:{}, words_found:[]} rendered over a panel
\* that held rows and tags: count 0, no rows, the placeholder.
C7_Witness ==
    /\ ev.kind = "render"
    /\ ev.thrown = "none"
    /\ rendered.persuasive_keywords = Some(NoKeywords)
    /\ ev.rowsBefore > 0
    /\ ev.tagsBefore > 1
    /\ keywordCount = 0
    /\ keywordCategories = <<>>
    /\ Len(keywordsList) = 1
    /\ keywordsList[1].kind = "placeholder"

\* The colour the source's comments give each known emotion.
KnownColor(key) ==
    CASE key = Joy -> "#10b981"
      [] key = Fear -> "#ef4444"
      [] key = Anger -> "#dc2626"
      [] key = Trust -> "#3b82f6"

\* C8 as stated: the chart has one segment per emotion key, labelled with the
\* capitalized key, and the segment of each known emotion has that emotion's
\* own colour, whatever the order and subset of the keys.
C8_Original ==
    (ev.kind = "render" /\ passes(rendered, "emotions")) =>
        LET emotions == rendered.emotions[1] IN
        /\ Len(chartSegments) = Len(emotions)
        /\ \A i \in 1..Len(emotions) :
             /\ chartSegments[i].key = emotions[i].key
             /\ chartSegments[i].label = capitalize(emotions[i].key)
             /\ chartSegments[i].color = KnownColor(emotions[i].key)

(***************************************************************************)
(* Properties of the tweens, checked under SpecTween.                      *)
(***************************************************************************)
\* C9 as stated: every tween stops after finitely many ticks, showing the
\* rounded target on the tick that stops it.  In a form a finite run
\* refutes: a tick either stops its timer, showing the rounded target, or
\* moves the timer's value; a tick that does neither repeats for ever.
C9_Original ==
    ev.kind = "tick" =>
        /\ ev.cleared \/ ev.moved
        /\ ev.cleared => ev.shown = ev.end

Running(el) == \E i \in 1..Len(timers) : timers[i].el = el /\ timers[i].render = nrender

\* C10 as stated, in a form a finite run refutes: once the latest render's
\* tween of a number has stopped, the number shown is the rounded score of
\* that render.
C10_Original ==
    nrender > 0 =>
        /\ ~Running("gaugeScore") => gaugeScore = rendered.persuasion_score
        /\ ~Running("ethicalScore") => ethicalScore = rendered.ethical_score

====
